---- MODULE Spec2Model ----
(***************************************************************************)
(* Model of the Zest proxy supervisor (zest-tauri/src-tauri/src/proxy.rs   *)
(* and the command handlers of commands.rs that touch its state).          *)
(*                                                                         *)
(* Text is modelled as sequences of one-character strings, so that         *)
(* starts_with, trim, trim_matches, u16 parsing and number formatting are  *)
(* computed the way the code computes them.  A config file is a sequence   *)
(* of lines; a line is a record [indent, key, val]:                        *)
(*    key = ""   blank line            key = "#"  comment line             *)
(*    key = "-"  list item "- val"     other      "key: val"               *)
(* indent tells whether the raw line starts with a space or a tab.         *)
(***************************************************************************)
EXTENDS Integers, Sequences, FiniteSets, TLC

(***************************************************************************)
(* Option values: None is the empty sequence, Some(x) the one-element one. *)
(***************************************************************************)
None == <<>>

Some(x) == <<x>>

IsSome(o) == o # <<>>

Unwrap(o) == o[1]

OrElse(o, p) == IF IsSome(o) THEN o ELSE p

(***************************************************************************)
(* Characters and string helpers.                                          *)
(***************************************************************************)
DQ == "\""

SQ == "'"

SP == " "

Digits == <<"0", "1", "2", "3", "4", "5", "6", "7", "8", "9">>

IsDigit(c) == \E i \in 1..10 : Digits[i] = c

DigitVal(c) == (CHOOSE i \in 1..10 : Digits[i] = c) - 1

Letters ==
    {"a", "b", "c", "d", "e", "f", "g", "h", "i", "j", "k", "l", "m",
     "n", "o", "p", "q", "r", "s", "t", "u", "v", "w", "x", "y", "z",
     "A", "B", "C", "D", "E", "F", "G", "H", "I", "J", "K", "L", "M",
     "N", "O", "P", "Q", "R", "S", "T", "U", "V", "W", "X", "Y", "Z"}

\* a character of a capture-group name: [0-9A-Za-z_]
IsWordChar(c) == c \in Letters \/ c = "_" \/ IsDigit(c)

StartsWith(s, p) == Len(s) >= Len(p) /\ SubSeq(s, 1, Len(p)) = p

RECURSIVE TrimStartMatches(_, _)
TrimStartMatches(s, c) ==
    IF s # <<>> /\ s[1] = c THEN TrimStartMatches(Tail(s), c) ELSE s

RECURSIVE TrimEndMatches(_, _)
TrimEndMatches(s, c) ==
    IF s # <<>> /\ s[Len(s)] = c THEN TrimEndMatches(SubSeq(s, 1, Len(s) - 1), c) ELSE s

\* str::trim_matches(c): strips every leading and trailing c
TrimMatches(s, c) == TrimEndMatches(TrimStartMatches(s, c), c)

\* str::trim(): strips leading and trailing whitespace
Trim(s) == TrimMatches(s, SP)

\* the bcrypt marker rejected by the key readers: key.starts_with("$2")
BcryptPrefix == <<"$", "2">>

IsUsableKey(key) == key # <<>> /\ ~StartsWith(key, BcryptPrefix)

\* str::parse::<u16>() of a digit string (None on empty, non-digit, overflow)
U16Max == 65535

RECURSIVE ParseDigits(_, _)
ParseDigits(s, acc) ==
    IF s = <<>> THEN Some(acc)
    ELSE IF ~IsDigit(s[1]) THEN None
    ELSE IF acc * 10 + DigitVal(s[1]) > U16Max THEN None
    ELSE ParseDigits(Tail(s), acc * 10 + DigitVal(s[1]))

ParseU16(s) == IF s = <<>> THEN None ELSE ParseDigits(s, 0)

\* format!("{}", n) of an unsigned number
RECURSIVE FormatNum(_)
FormatNum(n) ==
    IF n < 10 THEN <<Digits[n + 1]>>
    ELSE Append(FormatNum(n \div 10), Digits[(n % 10) + 1])

Line(indent, key, val) == [indent |-> indent, key |-> key, val |-> val]

Quoted(s) == <<DQ>> \o s \o <<DQ>>

(***************************************************************************)
(* Readers of the config file (ProxyStateInner, proxy.rs).                 *)
(***************************************************************************)
DefaultPort == 8317

\* read_port_from_config: first "port:" line whose value parses as u16
RECURSIVE ScanPort(_, _)
ScanPort(lines, i) ==
    IF i > Len(lines) THEN None
    ELSE IF lines[i].key = "port" /\ IsSome(ParseU16(Trim(lines[i].val)))
         THEN ParseU16(Trim(lines[i].val))
         ELSE ScanPort(lines, i + 1)

read_port_from_config(file) ==
    IF file.exists THEN ScanPort(file.lines, 1) ELSE None

\* first loop of read_api_key_from_config: secret-key inside remote-management
RECURSIVE ScanSecretKey(_, _, _)
ScanSecretKey(lines, i, in_remote_management) ==
    IF i > Len(lines) THEN None
    ELSE LET l == lines[i]
             key == TrimMatches(TrimMatches(Trim(l.val), DQ), SQ)
             leaves == l.key # "" /\ l.key # "#" /\ ~l.indent
         IN  IF l.key = "remote-management" THEN ScanSecretKey(lines, i + 1, TRUE)
             ELSE IF ~in_remote_management THEN ScanSecretKey(lines, i + 1, FALSE)
             ELSE IF l.key = "secret-key" /\ IsUsableKey(key) THEN Some(key)
             ELSE ScanSecretKey(lines, i + 1, ~leaves)

\* second loop of read_api_key_from_config: first usable item under api-keys
RECURSIVE ScanApiKeys(_, _, _)
ScanApiKeys(lines, i, in_api_keys) ==
    IF i > Len(lines) THEN None
    ELSE LET l == lines[i]
             key == TrimMatches(TrimMatches(l.val, DQ), SQ)
         IN  IF l.key = "api-keys" THEN ScanApiKeys(lines, i + 1, TRUE)
             ELSE IF ~in_api_keys THEN ScanApiKeys(lines, i + 1, FALSE)
             ELSE IF l.key = "-"
                  THEN IF IsUsableKey(key) THEN Some(key)
                       ELSE ScanApiKeys(lines, i + 1, TRUE)
             ELSE IF l.key # "" /\ l.key # "#" THEN None
             ELSE ScanApiKeys(lines, i + 1, TRUE)

read_api_key_from_config(file) ==
    IF file.exists
    THEN OrElse(ScanSecretKey(file.lines, 1, FALSE), ScanApiKeys(file.lines, 1, FALSE))
    ELSE None

\* read_management_key_from_defaults: the trimmed output of `defaults read`,
\* rejected when empty or a bcrypt hash.  store = None: the command fails
\* (no such preference; every build that is not macOS behaves like this).
read_management_key_from_defaults(store) ==
    IF IsSome(store) /\ IsUsableKey(Trim(Unwrap(store))) THEN Some(Trim(Unwrap(store)))
    ELSE None

\* the key chain of ProxyStateInner::new; uuid is the freshly generated token
ResolveManagementKey(store, file, env, uuid) ==
    Unwrap(OrElse(read_management_key_from_defaults(store),
           OrElse(read_api_key_from_config(file),
           OrElse(env, Some(uuid)))))

(***************************************************************************)
(* Writers of the config file.                                             *)
(***************************************************************************)
\* Self::auth_dir().display(): <home>/.cli-proxy-api
AuthDirText == <<"/", "h", "o", "m", "e", "/", ".", "c", "l", "i", "-", "p", "r", "o", "x", "y", "-", "a", "p", "i">>

ZestLocalPrefix == <<"z", "e", "s", "t", "-", "l", "o", "c", "a", "l", "-">>

\* uuid.split('-').next(): the characters before the first dash
RECURSIVE FirstSegment(_)
FirstSegment(s) ==
    IF s = <<>> \/ s[1] = "-" THEN <<>> ELSE <<s[1]>> \o FirstSegment(Tail(s))

\* the document ensure_config_exists writes when no file exists
DefaultConfigLines(port, key, uuid) ==
    <<
       Line(FALSE, "host", <<DQ, "1", "2", "7", ".", "0", ".", "0", ".", "1", DQ>>),
       Line(FALSE, "port", FormatNum(port)),
       Line(FALSE, "auth-dir", Quoted(AuthDirText)),
       Line(FALSE, "proxy-url", <<DQ, DQ>>),
       Line(FALSE, "", <<>>),
       Line(FALSE, "api-keys", <<>>),
       Line(TRUE, "-", Quoted(ZestLocalPrefix \o FirstSegment(uuid))),
       Line(FALSE, "", <<>>),
       Line(FALSE, "remote-management", <<>>),
       Line(TRUE, "allow-remote", <<"f", "a", "l", "s", "e">>),
       Line(TRUE, "secret-key", Quoted(key)),
       Line(FALSE, "", <<>>),
       Line(FALSE, "debug", <<"f", "a", "l", "s", "e">>),
       Line(FALSE, "logging-to-file", <<"f", "a", "l", "s", "e">>),
       Line(FALSE, "usage-statistics-enabled", <<"t", "r", "u", "e">>),
       Line(FALSE, "", <<>>),
       Line(FALSE, "routing", <<>>),
       Line(TRUE, "strategy", <<DQ, "r", "o", "u", "n", "d", "-", "r", "o", "b", "i", "n", DQ>>),
       Line(FALSE, "", <<>>),
       Line(FALSE, "quota-exceeded", <<>>),
       Line(TRUE, "switch-project", <<"t", "r", "u", "e">>),
       Line(TRUE, "switch-preview-model", <<"t", "r", "u", "e">>),
       Line(FALSE, "", <<>>),
       Line(FALSE, "request-retry", <<"3">>),
       Line(FALSE, "max-retry-interval", <<"3", "0">>)
    >>

AbsentFile == [exists |-> FALSE, lines |-> <<>>]

ensure_config_exists_Overwrites(file, port, key, uuid) ==
    [exists |-> TRUE, lines |-> DefaultConfigLines(port, key, uuid)]

\* ensure_config_exists, given that both create_dir_all calls succeeded:
\* an existing file is left alone
ensure_config_exists(file, port, key, uuid) ==
    IF file.exists THEN file
    ELSE [exists |-> TRUE, lines |-> DefaultConfigLines(port, key, uuid)]

\* index of the first occurrence of pat in s at or after i (0: none)
RECURSIVE FindSub(_, _, _)
FindSub(s, pat, i) ==
    IF i + Len(pat) - 1 > Len(s) THEN 0
    ELSE IF SubSeq(s, i, i + Len(pat) - 1) = pat THEN i
    ELSE FindSub(s, pat, i + 1)

\* first index >= i of s that holds no space (Len(s) + 1: none)
RECURSIVE SkipSpaces(_, _)
SkipSpaces(s, i) ==
    IF i <= Len(s) /\ s[i] = SP THEN SkipSpaces(s, i + 1) ELSE i

\* first index >= i of s that holds no digit
RECURSIVE SkipDigits(_, _)
SkipDigits(s, i) ==
    IF i <= Len(s) /\ IsDigit(s[i]) THEN SkipDigits(s, i + 1) ELSE i

\* first index >= i of s that holds a double quote (0: none)
RECURSIVE FindQuote(_, _)
FindQuote(s, i) ==
    IF i > Len(s) THEN 0 ELSE IF s[i] = DQ THEN i ELSE FindQuote(s, i + 1)

PortPattern == <<"p", "o", "r", "t", ":">>

SecretKeyPattern == <<"s", "e", "c", "r", "e", "t", "-", "k", "e", "y", ":">>

\* keys of the model's files whose text ends with "port" / "secret-key", so
\* that the unanchored patterns match at "<key>:"
KeysEndingInPort == {"port", "proxy-port"}

KeysEndingInSecretKey == {"secret-key", "old-secret-key"}

\* Regex::new(r"port:\s*\d+") on one line, `from` being the index of val that
\* follows the colon of an occurrence of "port:" (1: the line's own key).
\* Result: None, or the line with the digits replaced by `digits`; when the
\* colon is inside val the replacement writes "port: " in front of them.
PortMatchAt(l, from, digits) ==
    LET d == SkipSpaces(l.val, from)
        e == SkipDigits(l.val, d)
    IN  IF e = d THEN None
        ELSE Some([l EXCEPT !.val =
                 IF from = 1 THEN digits \o SubSeq(l.val, e, Len(l.val))
                 ELSE SubSeq(l.val, 1, from - 1) \o <<SP>> \o digits
                          \o SubSeq(l.val, e, Len(l.val))])

RECURSIVE PortMatchInVal(_, _, _)
PortMatchInVal(l, i, digits) ==
    LET at == FindSub(l.val, PortPattern, i)
    IN  IF at = 0 THEN None
        ELSE OrElse(PortMatchAt(l, at + Len(PortPattern), digits),
                    PortMatchInVal(l, at + 1, digits))

PortMatchInLine(l, digits) ==
    OrElse(IF l.key \in KeysEndingInPort THEN PortMatchAt(l, 1, digits) ELSE None,
           PortMatchInVal(l, 1, digits))

\* Regex::replace: only the first match in the file is replaced
RECURSIVE ReplaceFirstPort(_, _, _)
ReplaceFirstPort(lines, i, digits) ==
    IF i > Len(lines) THEN lines
    ELSE LET m == PortMatchInLine(lines[i], digits)
         IN  IF IsSome(m) THEN [lines EXCEPT ![i] = Unwrap(m)]
             ELSE ReplaceFirstPort(lines, i + 1, digits)

\* update_config_port, given that the read and the write succeeded
update_config_port(file, new_port) ==
    IF ~file.exists THEN file
    ELSE [file EXCEPT !.lines = ReplaceFirstPort(file.lines, 1, FormatNum(new_port))]

\* The replacement of Regex::replace is a template: "$$" is a dollar sign,
\* "$name" the capture group of that name (name: the longest run of
\* [0-9A-Za-z_]); the patterns here have no group but 0, the whole match, so
\* every other name expands to the empty string.
RECURSIVE SkipWord(_, _)
SkipWord(s, i) ==
    IF i <= Len(s) /\ IsWordChar(s[i]) THEN SkipWord(s, i + 1) ELSE i

RECURSIVE ExpandTemplate(_, _)
ExpandTemplate(s, whole) ==
    IF s = <<>> THEN <<>>
    ELSE IF s[1] # "$" THEN <<s[1]>> \o ExpandTemplate(Tail(s), whole)
    ELSE IF Len(s) >= 2 /\ s[2] = "$"
         THEN <<"$">> \o ExpandTemplate(SubSeq(s, 3, Len(s)), whole)
    ELSE LET e == SkipWord(s, 2)
         IN  IF e = 2 THEN <<"$">> \o ExpandTemplate(Tail(s), whole)
             ELSE (IF SubSeq(s, 2, e - 1) = <<"0">> THEN whole ELSE <<>>)
                      \o ExpandTemplate(SubSeq(s, e, Len(s)), whole)

\* Regex::new(r#"secret-key:\s*"[^"]*""#) on one line, as PortMatchAt
SecretMatchAt(l, from, key) ==
    LET q1 == SkipSpaces(l.val, from)
        q2 == IF q1 <= Len(l.val) /\ l.val[q1] = DQ THEN FindQuote(l.val, q1 + 1) ELSE 0
        whole == SecretKeyPattern \o <<SP>> \o SubSeq(l.val, q1, q2)
        new == Quoted(ExpandTemplate(key, whole))
    IN  IF q2 = 0 THEN None
        ELSE Some([l EXCEPT !.val =
                 IF from = 1 THEN new \o SubSeq(l.val, q2 + 1, Len(l.val))
                 ELSE SubSeq(l.val, 1, from - 1) \o <<SP>> \o new
                          \o SubSeq(l.val, q2 + 1, Len(l.val))])

RECURSIVE SecretMatchInVal(_, _, _)
SecretMatchInVal(l, i, key) ==
    LET at == FindSub(l.val, SecretKeyPattern, i)
    IN  IF at = 0 THEN None
        ELSE OrElse(SecretMatchAt(l, at + Len(SecretKeyPattern), key),
                    SecretMatchInVal(l, at + 1, key))

SecretMatchInLine(l, key) ==
    OrElse(IF l.key \in KeysEndingInSecretKey THEN SecretMatchAt(l, 1, key) ELSE None,
           SecretMatchInVal(l, 1, key))

RECURSIVE ReplaceFirstSecret(_, _, _)
ReplaceFirstSecret(lines, i, key) ==
    IF i > Len(lines) THEN lines
    ELSE LET m == SecretMatchInLine(lines[i], key)
         IN  IF IsSome(m) THEN [lines EXCEPT ![i] = Unwrap(m)]
             ELSE ReplaceFirstSecret(lines, i + 1, key)

\* sync_secret_key_in_config, given that the read and the write succeeded
sync_secret_key_in_config(file, key) ==
    IF ~file.exists THEN file
    ELSE [file EXCEPT !.lines = ReplaceFirstSecret(file.lines, 1, key)]

(***************************************************************************)
(* Bounds and input sets.                                                  *)
(***************************************************************************)
\* number of concurrently running command handlers (tauri async commands)
NumTasks == 2

\* number of process ids the operating system hands out
NumPids == 1

Tasks == 1..NumTasks

Pids == 1..NumPids

KeyA == <<"a", "1">>

KeyC == <<"c", "3">>

KeyE == <<"e", "5">>

HashKey == <<"$", "2", "a", "$", "h">>

Uuids == {<<"f", "0", "-", "4">>}

Ports == {DefaultPort, 9000}

\* contents of the preferences store: unset, or the raw text it holds
StoreValues == {None, Some(KeyA), Some(HashKey)}

\* a config file left by an earlier session
SessionFile(port, key) ==
    [exists |-> TRUE, lines |-> DefaultConfigLines(port, key, <<"c", "3", "-", "9">>)]

InitStores == {None, Some(KeyA)}

InitFiles == {AbsentFile, SessionFile(9000, KeyE)}

InitEnvs == {None}

(***************************************************************************)
(* State.                                                                  *)
(***************************************************************************)
VARIABLES
    phase,              \* "boot" before ProxyState::new has run, then "ready"
    status,             \* ProxyStateInner.status: ProxyStatus
    process,            \* ProxyStateInner.process: Option<Child> (the pid)
    management_key,     \* ProxyStateInner.management_key
    is_starting,        \* ProxyStateInner.is_starting
    is_downloading,     \* ProxyStateInner.is_downloading
    download_progress,  \* ProxyStateInner.download_progress, in tenths
    last_error,         \* ProxyStateInner.last_error: Option<String>
    settings_port,      \* AppSettings.port held by SettingsState
    config,             \* <data_dir>/config.yaml
    binary,             \* <data_dir>/CLIProxyAPI: "absent", "old", "new", "partial"
    store,              \* the preferences store's managementKey
    env,                \* the ZEST_MANAGEMENT_KEY environment variable
    procs,              \* operating-system processes, by pid
    lock,               \* holder of ProxyState.inner (0: free)
    pc,                 \* position of each command handler
    local,              \* each handler's local: child / process / port
    last,               \* the command return made by the latest step, if any
    sources             \* what the key sources were made to hold (SpecResolve)

supervisor == <<status, process, management_key, is_starting, is_downloading,
                download_progress, last_error>>

vars == <<phase, status, process, management_key, is_starting, is_downloading,
          download_progress, last_error, settings_port, config, binary, store,
          env, procs, lock, pc, local, last, sources>>

NoStatus == [running |-> FALSE, port |-> 0, pid |-> None, version |-> None,
             uptime_seconds |-> None]

\* a command return: the command, "Ok" or the error, and the value returned
\* (a ProxyStatus in status; otherwise val names it)
NoRet == [op |-> "none", res |-> "none", val |-> "none", status |-> NoStatus]

Ret(op, res, st) ==
    [op |-> op, res |-> res, val |-> IF res = "Ok" THEN "status" ELSE "none", status |-> st]

RetVal(op, res, val) == [op |-> op, res |-> res, val |-> val, status |-> NoStatus]

\* a pid is "free" (no such process), "alive", or "exited" and not yet reaped

\* ProxyStateInner::new: the fields of the fresh state
NewStatus(file) ==
    [running |-> FALSE, port |-> Unwrap(OrElse(read_port_from_config(file), Some(DefaultPort))),
     pid |-> None, version |-> None, uptime_seconds |-> None]

NoSources == [store |-> None, secret |-> None, items |-> <<>>, env |-> None]

\* the environment and the handlers before the application state is built
Surroundings(st, file, e, bin, sp) ==
    /\ store = st
    /\ config = file
    /\ env = e
    /\ binary = bin
    /\ settings_port = sp
    /\ procs = [p \in Pids |-> "free"]
    /\ lock = 0
    /\ pc = [t \in Tasks |-> "idle"]
    /\ local = [t \in Tasks |-> None]
    /\ last = NoRet

\* ProxyStateInner::new: the state it returns
ProxyStateInner_new(st, file, e, uuid) ==
    [status |-> NewStatus(file),
     process |-> None,
     management_key |-> ResolveManagementKey(st, file, e, uuid),
     is_starting |-> FALSE,
     is_downloading |-> FALSE,
     download_progress |-> 0,
     last_error |-> None]

Constructed(st, file, e, uuid) ==
    LET new == ProxyStateInner_new(st, file, e, uuid)
    IN  /\ status = new.status
        /\ process = new.process
        /\ management_key = new.management_key
        /\ is_starting = new.is_starting
        /\ is_downloading = new.is_downloading
        /\ download_progress = new.download_progress
        /\ last_error = new.last_error

\* ProxyState::new and SettingsState::new have run (main.rs setup)
Init ==
    \E st \in InitStores, file \in InitFiles, e \in InitEnvs, uuid \in Uuids,
       bin \in {"absent", "old"}, sp \in Ports :
        /\ Surroundings(st, file, e, bin, sp)
        /\ sources = NoSources
        /\ phase = "ready"
        /\ Constructed(st, file, e, uuid)

\* handler t is free to run a command
Idle(t) == phase = "ready" /\ pc[t] = "idle"

\* tokio Mutex::lock().await returns: the mutex is free
CanLock(t) == Idle(t) /\ lock = 0

Return(t, op, res, st) ==
    /\ pc' = [pc EXCEPT ![t] = "idle"]
    /\ local' = [local EXCEPT ![t] = None]
    /\ last' = Ret(op, res, st)

ReturnVal(t, op, res, val) ==
    /\ pc' = [pc EXCEPT ![t] = "idle"]
    /\ local' = [local EXCEPT ![t] = None]
    /\ last' = RetVal(op, res, val)

Goto(t, label, loc) ==
    /\ pc' = [pc EXCEPT ![t] = label]
    /\ local' = [local EXCEPT ![t] = loc]
    /\ last' = NoRet

(***************************************************************************)
(* start_proxy (proxy.rs).                                                 *)
(***************************************************************************)
is_binary_installed_Always == TRUE

\* ProxyStateInner::is_binary_installed: binary_path().exists()
is_binary_installed == binary # "absent"

AlreadyRunning_Never == FALSE

\* the second guard of start_proxy: inner.status.running
AlreadyRunning == status.running

LockDuringSleep_Released(t) == 0

\* the MutexGuard `inner` of start_proxy lives until the function returns, so
\* the mutex stays with the handler while it sleeps
LockDuringSleep(t) == t

RunningStatus_NoPid(st, pid) == [st EXCEPT !.running = TRUE]

\* inner.status.running = true; inner.status.pid = pid (pid = child.id())
RunningStatus(st, pid) == [st EXCEPT !.running = TRUE, !.pid = Some(pid)]

TrackedChild_Dropped(pid) == None

\* inner.process = Some(child)
TrackedChild(pid) == Some(pid)

RereadKey_Keeps(st, key) == key

\* the key re-read at the end of start_proxy: the store's key when it has a
\* usable one, the cached key otherwise
RereadKey(st, key) ==
    Unwrap(OrElse(read_management_key_from_defaults(st), Some(key)))

\* start_proxy up to its first suspension after the lock (the startup sleep),
\* or up to its return when it returns before that
StartBegin(t) ==
    /\ CanLock(t)
    /\ UNCHANGED <<phase, sources, settings_port, binary, store, env>>
    /\ IF ~is_binary_installed
       THEN /\ Return(t, "start", "BinaryNotFound", NoStatus)
            /\ UNCHANGED <<supervisor, config, procs, lock>>
       ELSE IF AlreadyRunning
       THEN /\ Return(t, "start", "Ok", status)
            /\ UNCHANGED <<supervisor, config, procs, lock>>
       ELSE /\ is_starting' = TRUE
            /\ last_error' = None
            /\ UNCHANGED <<status, process, management_key, is_downloading,
                           download_progress>>
            /\ \E uuid \in Uuids :
                 LET ensured == ensure_config_exists(config, status.port, management_key, uuid)
                     synced == sync_secret_key_in_config(ensured, management_key)
                 IN  \/ \* ensure_config_exists fails (create_dir_all or write)
                        /\ Return(t, "start", "ConfigError", NoStatus)
                        /\ UNCHANGED <<config, procs, lock>>
                     \/ \* sync_secret_key_in_config fails (read or write)
                        /\ ensured.exists
                        /\ config' = ensured
                        /\ Return(t, "start", "ConfigError", NoStatus)
                        /\ UNCHANGED <<procs, lock>>
                     \/ \* cmd.spawn() fails
                        /\ config' = synced
                        /\ Return(t, "start", "StartupFailed", NoStatus)
                        /\ UNCHANGED <<procs, lock>>
                     \/ \* the child is spawned; the handler sleeps 1.5 s
                        \E pid \in Pids :
                          /\ procs[pid] = "free"
                          /\ config' = synced
                          /\ procs' = [procs EXCEPT ![pid] = "alive"]
                          /\ lock' = LockDuringSleep(t)
                          /\ Goto(t, "start_sleep", Some(pid))

\* start_proxy after the sleep: child.try_wait() and the rest
StartFinish(t) ==
    /\ pc[t] = "start_sleep"
    /\ UNCHANGED <<phase, sources, settings_port, binary, store, env, config,
                   is_downloading, download_progress>>
    /\ lock' = 0
    /\ LET pid == Unwrap(local[t])
       IN  \/ \* Ok(Some(status)): the child has exited and is reaped
              /\ procs[pid] = "exited"
              /\ procs' = [procs EXCEPT ![pid] = "free"]
              /\ is_starting' = FALSE
              /\ last_error' = Some("Process exited")
              /\ UNCHANGED <<status, process, management_key>>
              /\ Return(t, "start", "StartupFailed", NoStatus)
           \/ \* Err(e): the handle is dropped, the child left as it is
              /\ procs' = [procs EXCEPT ![pid] =
                             IF procs[pid] = "exited" THEN "free" ELSE @]
              /\ is_starting' = FALSE
              /\ last_error' = Some("try_wait failed")
              /\ UNCHANGED <<status, process, management_key>>
              /\ Return(t, "start", "ProcessError", NoStatus)
           \/ \* Ok(None): the child is running
              /\ procs[pid] = "alive"
              /\ status' = RunningStatus(status, pid)
              /\ process' = TrackedChild(pid)
              /\ is_starting' = FALSE
              /\ management_key' = RereadKey(store, management_key)
              /\ UNCHANGED <<last_error, procs>>
              /\ Return(t, "start", "Ok", status')

(***************************************************************************)
(* stop_proxy (proxy.rs).                                                  *)
(***************************************************************************)
\* stop_proxy up to its first suspension after the lock: process.take()
StopBegin(t) ==
    /\ CanLock(t)
    /\ lock' = t
    /\ process' = None
    /\ IF IsSome(process)
       THEN Goto(t, "stop_kill", process)
       ELSE Goto(t, "stop_portkill", None)
    /\ UNCHANGED <<phase, sources, status, management_key, is_starting, is_downloading,
                   download_progress, last_error, settings_port, config, binary,
                   store, env, procs>>

\* process.kill().await, then timeout(2 s, process.wait()): both outcomes of
\* the kill, after which the wait returns or times out and the handle is dropped
StopKill(t) ==
    /\ pc[t] = "stop_kill"
    /\ LET pid == Unwrap(local[t])
       IN  \/ procs' = [procs EXCEPT ![pid] = "free"]
           \/ procs' = [procs EXCEPT ![pid] =
                          IF procs[pid] = "exited" THEN "free" ELSE @]
    /\ Goto(t, "stop_portkill", None)
    /\ UNCHANGED <<phase, sources, supervisor, settings_port, config, binary, store, env, lock>>

\* kill_process_on_port: SIGKILL to the pids lsof lists for the port; lsof may
\* fail or list none, and which processes hold the port is the system's affair
KilledByPort ==
    {[p \in Pids |-> IF procs[p] = "alive" /\ p \in killed THEN "free" ELSE procs[p]] :
        killed \in SUBSET Pids}

StoppedStatus_KeepsPid(st) == [st EXCEPT !.running = FALSE, !.uptime_seconds = None]

\* inner.status.running = false; pid = None; uptime_seconds = None
StoppedStatus(st) == [st EXCEPT !.running = FALSE, !.pid = None, !.uptime_seconds = None]

\* stop_proxy after the kill by port: the status is reset and returned
StopFinish(t) ==
    /\ pc[t] = "stop_portkill"
    /\ procs' \in KilledByPort
    /\ status' = StoppedStatus(status)
    /\ lock' = 0
    /\ Return(t, "stop", "Ok", status')
    /\ UNCHANGED <<phase, sources, process, management_key, is_starting, is_downloading,
                   download_progress, last_error, settings_port, config, binary,
                   store, env>>

(***************************************************************************)
(* set_port and save_settings (commands.rs).                               *)
(***************************************************************************)
\* set_port, first block: the proxy state and the config file
SetPort(t, port) ==
    /\ CanLock(t)
    /\ status' = [status EXCEPT !.port = port]
    /\ \/ \* update_config_port returns Ok
          /\ config' = update_config_port(config, port)
          /\ Goto(t, "set_port_settings", Some(port))
       \/ \* update_config_port fails reading or writing the file
          /\ config.exists
          /\ config' = config
          /\ ReturnVal(t, "set_port", "ConfigError", "none")
    /\ UNCHANGED <<phase, sources, process, management_key, is_starting, is_downloading,
                   download_progress, last_error, settings_port, binary, store,
                   env, procs, lock>>

\* set_port, second block: the settings state and its file
SetPortSettings(t) ==
    /\ pc[t] = "set_port_settings"
    /\ settings_port' = Unwrap(local[t])
    /\ \/ ReturnVal(t, "set_port", "Ok", "unit")
       \/ ReturnVal(t, "set_port", "SaveError", "none")
    /\ UNCHANGED <<phase, sources, supervisor, config, binary, store, env, procs, lock>>

\* save_settings: the new settings replace the held ones, then are written
SaveSettings(t, port) ==
    /\ Idle(t)
    /\ settings_port' = port
    /\ \/ ReturnVal(t, "save_settings", "Ok", "unit")
       \/ ReturnVal(t, "save_settings", "SaveError", "none")
    /\ UNCHANGED <<phase, sources, supervisor, config, binary, store, env, procs, lock>>

(***************************************************************************)
(* install_binary (proxy.rs).                                              *)
(***************************************************************************)
\* the first locked block; the lock is dropped before the release is fetched
InstallBegin(t) ==
    /\ CanLock(t)
    /\ is_downloading' = TRUE
    /\ download_progress' = 0
    /\ last_error' = None
    /\ Goto(t, "install_fetch", None)
    /\ UNCHANGED <<phase, sources, status, process, management_key, is_starting,
                   settings_port, config, binary, store, env, procs, lock>>

\* the release request ends: an error return, or the asset is found and the
\* progress is set under the lock
InstallFetched(t) ==
    /\ pc[t] = "install_fetch"
    /\ \/ /\ \E e \in {"NetworkError", "NoCompatibleBinary"} :
               ReturnVal(t, "install_binary", e, "none")
          /\ UNCHANGED download_progress
       \/ /\ lock = 0
          /\ download_progress' = 1
          /\ Goto(t, "install_download", None)
    /\ UNCHANGED <<phase, sources, status, process, management_key, is_starting,
                   is_downloading, last_error, settings_port, config, binary,
                   store, env, procs, lock>>

\* the download ends
InstallDownloaded(t) ==
    /\ pc[t] = "install_download"
    /\ \/ /\ ReturnVal(t, "install_binary", "DownloadFailed", "none")
          /\ UNCHANGED download_progress
       \/ /\ lock = 0
          /\ download_progress' = 7
          /\ Goto(t, "install_extract", None)
    /\ UNCHANGED <<phase, sources, status, process, management_key, is_starting,
                   is_downloading, last_error, settings_port, config, binary,
                   store, env, procs, lock>>

\* extract_and_install up to remove_file(binary_path)
InstallExtract(t) ==
    /\ pc[t] = "install_extract"
    /\ \/ \* temp dir, archive tool, no binary in the archive, remove_file
          /\ ReturnVal(t, "install_binary", "ExtractionFailed", "none")
          /\ UNCHANGED binary
       \/ /\ binary' = "absent"
          /\ Goto(t, "install_copy", None)
    /\ UNCHANGED <<phase, sources, supervisor, settings_port, config, store, env, procs, lock>>

\* extract_and_install from fs::copy on: copy, set_permissions, codesign
InstallCopy(t) ==
    /\ pc[t] = "install_copy"
    /\ \/ \* fs::copy fails: nothing, or part of the file, is at the path
          /\ binary' \in {"absent", "partial"}
          /\ ReturnVal(t, "install_binary", "ExtractionFailed", "none")
       \/ \* set_permissions fails after a complete copy
          /\ binary' = "new"
          /\ ReturnVal(t, "install_binary", "ExtractionFailed", "none")
       \/ /\ binary' = "new"
          /\ Goto(t, "install_finish", None)
    /\ UNCHANGED <<phase, sources, supervisor, settings_port, config, store, env, procs, lock>>

\* the last locked block and the return
InstallFinish(t) ==
    /\ pc[t] = "install_finish"
    /\ lock = 0
    /\ download_progress' = 10
    /\ is_downloading' = FALSE
    /\ ReturnVal(t, "install_binary", "Ok", "version")
    /\ UNCHANGED <<phase, sources, status, process, management_key, is_starting, last_error,
                   settings_port, config, binary, store, env, procs, lock>>

(***************************************************************************)
(* fetch_auth_files (proxy.rs).                                            *)
(***************************************************************************)
\* what comes back for a request: no response (transport failure), a status,
\* or a success status whose body does not parse
Responses == {"error", "401", "403", "500", "200", "200 unparsable"}

AuthFilesResult_Propagates(r) ==
    IF r = "200" THEN RetVal("fetch_auth_files", "Ok", "files")
    ELSE RetVal("fetch_auth_files", "ApiError", "none")

\* what fetch_auth_files returns for the response that ends the call: the
\* parsed files on success, Ok(Vec::new()) in every other arm
AuthFilesResult(r) ==
    RetVal("fetch_auth_files", "Ok", IF r = "200" THEN "files" ELSE "empty")

\* up to the first request
FetchBegin(t) ==
    /\ CanLock(t)
    /\ IF ~status.running
       THEN /\ ReturnVal(t, "fetch_auth_files", "Ok", "empty")
            /\ UNCHANGED lock
       ELSE /\ lock' = t
            /\ Goto(t, "fetch_wait", None)
    /\ UNCHANGED <<phase, sources, supervisor, settings_port, config, binary, store, env, procs>>

ShouldRetry_Never(r, new_key, key) == FALSE

\* the first response is 401 or 403 and the store holds a usable key that is
\* not the cached one
ShouldRetry(r, new_key, key) ==
    r \in {"401", "403"} /\ IsSome(new_key) /\ Unwrap(new_key) # key

\* the first response
FetchResponse(t, r) ==
    /\ pc[t] = "fetch_wait"
    /\ r \in Responses
    /\ LET new_key == read_management_key_from_defaults(store)
       IN  IF ShouldRetry(r, new_key, management_key)
           THEN /\ management_key' = Unwrap(new_key)
                /\ Goto(t, "fetch_retry", None)
                /\ UNCHANGED lock
           ELSE /\ ReturnVal(t, AuthFilesResult(r).op, AuthFilesResult(r).res,
                             AuthFilesResult(r).val)
                /\ lock' = 0
                /\ UNCHANGED management_key
    /\ UNCHANGED <<phase, sources, status, process, is_starting, is_downloading,
                   download_progress, last_error, settings_port, config, binary,
                   store, env, procs>>

\* the response to the retry with the refreshed key
FetchRetry(t, r) ==
    /\ pc[t] = "fetch_retry"
    /\ r \in Responses
    /\ ReturnVal(t, AuthFilesResult(r).op, AuthFilesResult(r).res, AuthFilesResult(r).val)
    /\ lock' = 0
    /\ UNCHANGED <<phase, sources, supervisor, settings_port, config, binary, store, env, procs>>

(***************************************************************************)
(* fetch_logs, fetch_usage, fetch_all_quotas (commands.rs).                *)
(***************************************************************************)
PollCommands == {"fetch_logs", "fetch_usage", "fetch_all_quotas"}

\* what the command returns for the response to its request.  fetch_logs and
\* fetch_usage match on every failure and return the empty value;
\* fetch_all_quotas passes a transport failure and a parse failure on with `?`
\* and map_err, and returns the empty list for a non-success status
PollResult(cmd, r) ==
    IF r = "200" THEN RetVal(cmd, "Ok", "data")
    ELSE IF cmd = "fetch_all_quotas" /\ r \in {"error", "200 unparsable"}
         THEN RetVal(cmd, "Err", "none")
         ELSE RetVal(cmd, "Ok", "empty")

\* up to the request: the empty value when the proxy is not running
PollBegin(t, cmd) ==
    /\ CanLock(t)
    /\ cmd \in PollCommands
    /\ IF ~status.running
       THEN /\ ReturnVal(t, cmd, "Ok", "empty")
            /\ UNCHANGED lock
       ELSE /\ lock' = t
            /\ Goto(t, "poll_wait", Some(cmd))
    /\ UNCHANGED <<phase, sources, supervisor, settings_port, config, binary, store, env, procs>>

\* the response to the request
PollResponse(t, r) ==
    /\ pc[t] = "poll_wait"
    /\ r \in Responses
    /\ LET result == PollResult(Unwrap(local[t]), r)
       IN  ReturnVal(t, result.op, result.res, result.val)
    /\ lock' = 0
    /\ UNCHANGED <<phase, sources, supervisor, settings_port, config, binary, store, env, procs>>

(***************************************************************************)
(* The management commands: get_api_keys (fetch_api_keys), check_health,   *)
(* delete_auth_file, clear_logs.                                           *)
(***************************************************************************)
ManageCommands == {"get_api_keys", "check_health", "delete_auth_file", "clear_logs"}

\* the commands whose client is built with .timeout(5 s); the others use
\* reqwest::Client::new(), which has no timeout
TimedCommands == {"check_health", "fetch_logs", "fetch_usage"}

ProxyDown_Never(st) == FALSE

\* the guard each command evaluates under the lock: !inner.status.running
ProxyDown(st) == ~st.running

\* what the command returns without a request when the proxy is not running
NotRunningResult(cmd) ==
    IF cmd = "get_api_keys" THEN RetVal(cmd, "Ok", "empty")
    ELSE IF cmd = "check_health" THEN RetVal(cmd, "Ok", "false")
    ELSE IF cmd = "delete_auth_file" THEN RetVal(cmd, "Proxy is not running", "none")
    ELSE RetVal(cmd, "Ok", "unit")

\* what the command returns for the response to its request: fetch_api_keys
\* passes a transport failure and a body without "api-keys" on as ApiError;
\* check_health is send().await.is_ok(); delete_auth_file and clear_logs fail
\* on a transport failure and do not look at the status
ManageResult(cmd, r) ==
    IF cmd = "get_api_keys"
    THEN IF r = "200" THEN RetVal(cmd, "Ok", "data") ELSE RetVal(cmd, "ApiError", "none")
    ELSE IF cmd = "check_health"
    THEN RetVal(cmd, "Ok", IF r = "error" THEN "false" ELSE "true")
    ELSE IF r = "error" THEN RetVal(cmd, "request failed", "none")
    ELSE RetVal(cmd, "Ok", "unit")

\* up to the request
ManageBegin(t, cmd) ==
    /\ CanLock(t)
    /\ cmd \in ManageCommands
    /\ IF ProxyDown(status)
       THEN /\ ReturnVal(t, NotRunningResult(cmd).op, NotRunningResult(cmd).res,
                         NotRunningResult(cmd).val)
            /\ UNCHANGED lock
       ELSE /\ lock' = t
            /\ Goto(t, "manage_wait", Some(cmd))
    /\ UNCHANGED <<phase, sources, supervisor, settings_port, config, binary, store, env, procs>>

\* the response to the request
ManageResponse(t, r) ==
    /\ pc[t] = "manage_wait"
    /\ r \in Responses
    /\ LET result == ManageResult(Unwrap(local[t]), r)
       IN  ReturnVal(t, result.op, result.res, result.val)
    /\ lock' = 0
    /\ UNCHANGED <<phase, sources, supervisor, settings_port, config, binary, store, env, procs>>

\* stop_proxy is called: the handler queues for the mutex
StopCall(t) ==
    /\ Idle(t)
    /\ Goto(t, "stop_lock", None)
    /\ UNCHANGED <<phase, sources, supervisor, settings_port, config, binary, store, env,
                   procs, lock>>

\* the queued stop_proxy gets the mutex: process.take()
StopLocked(t) ==
    /\ pc[t] = "stop_lock"
    /\ lock = 0
    /\ lock' = t
    /\ process' = None
    /\ IF IsSome(process)
       THEN Goto(t, "stop_kill", process)
       ELSE Goto(t, "stop_portkill", None)
    /\ UNCHANGED <<phase, sources, status, management_key, is_starting, is_downloading,
                   download_progress, last_error, settings_port, config, binary,
                   store, env, procs>>


(***************************************************************************)
(* Reads and the environment.                                              *)
(***************************************************************************)
\* get_proxy_status (commands.rs)
GetProxyStatus(t) ==
    /\ CanLock(t)
    /\ Return(t, "get_proxy_status", "Ok", status)
    /\ UNCHANGED <<phase, sources, supervisor, settings_port, config, binary, store, env,
                   procs, lock>>

\* a Child for the pid exists: stored in the state, or a handler's local
HandleHeld(pid) ==
    \/ process = Some(pid)
    \/ \E t \in Tasks : pc[t] \in {"start_sleep", "stop_kill"} /\ local[t] = Some(pid)

\* the managed proxy exits on its own (an exited child stays a zombie while
\* its handle is held; without a handle it is reaped)
ChildExits(pid) ==
    /\ procs[pid] = "alive"
    /\ procs' = [procs EXCEPT ![pid] = IF HandleHeld(pid) THEN "exited" ELSE "free"]
    /\ last' = NoRet
    /\ UNCHANGED <<phase, sources, supervisor, settings_port, config, binary, store, env,
                   lock, pc, local>>

\* the companion application rewrites the shared secret
StoreChanges(v) ==
    /\ phase = "ready"
    /\ v # store
    /\ store' = v
    /\ last' = NoRet
    /\ UNCHANGED <<phase, sources, supervisor, settings_port, config, binary, env, procs,
                   lock, pc, local>>

\* the lifecycle commands, the port and the auth-files fetch
Next ==
    \/ \E t \in Tasks : StartBegin(t)
    \/ \E t \in Tasks : StartFinish(t)
    \/ \E t \in Tasks : StopBegin(t)
    \/ \E t \in Tasks : StopKill(t)
    \/ \E t \in Tasks : StopFinish(t)
    \/ \E t \in Tasks : GetProxyStatus(t)
    \/ \E t \in Tasks, port \in Ports : SetPort(t, port)
    \/ \E t \in Tasks : SetPortSettings(t)
    \/ \E t \in Tasks : FetchBegin(t)
    \/ \E t \in Tasks, r \in Responses : FetchResponse(t, r)
    \/ \E t \in Tasks, r \in Responses : FetchRetry(t, r)
    \/ \E pid \in Pids : ChildExits(pid)
    \/ \E v \in StoreValues : StoreChanges(v)

Spec == Init /\ [][Next]_vars

(***************************************************************************)
(* The installer next to the lifecycle commands, in a fixed environment.   *)
(***************************************************************************)
InitInstall ==
    \E bin \in {"absent", "old"}, uuid \in Uuids :
        /\ Surroundings(None, SessionFile(9000, KeyE), None, bin, DefaultPort)
        /\ sources = NoSources
        /\ phase = "ready"
        /\ Constructed(None, SessionFile(9000, KeyE), None, uuid)

NextInstall ==
    \/ \E t \in Tasks : StartBegin(t)
    \/ \E t \in Tasks : StartFinish(t)
    \/ \E t \in Tasks : StopBegin(t)
    \/ \E t \in Tasks : StopKill(t)
    \/ \E t \in Tasks : StopFinish(t)
    \/ \E t \in Tasks : GetProxyStatus(t)
    \/ \E t \in Tasks : InstallBegin(t)
    \/ \E t \in Tasks : InstallFetched(t)
    \/ \E t \in Tasks : InstallDownloaded(t)
    \/ \E t \in Tasks : InstallExtract(t)
    \/ \E t \in Tasks : InstallCopy(t)
    \/ \E t \in Tasks : InstallFinish(t)
    \/ \E pid \in Pids : ChildExits(pid)

SpecInstall == InitInstall /\ [][NextInstall]_vars

(***************************************************************************)
(* The installer run over an existing installation.                        *)
(***************************************************************************)
InitUpgrade == InitInstall /\ binary = "old"

SpecUpgrade == InitUpgrade /\ [][NextInstall]_vars

(***************************************************************************)
(* The polling reads next to the lifecycle commands.                       *)
(***************************************************************************)
InitPoll ==
    \E uuid \in Uuids :
        /\ Surroundings(None, SessionFile(9000, KeyE), None, "old", DefaultPort)
        /\ sources = NoSources
        /\ phase = "ready"
        /\ Constructed(None, SessionFile(9000, KeyE), None, uuid)

NextPoll ==
    \/ \E t \in Tasks : StartBegin(t)
    \/ \E t \in Tasks : StartFinish(t)
    \/ \E t \in Tasks : StopBegin(t)
    \/ \E t \in Tasks : StopKill(t)
    \/ \E t \in Tasks : StopFinish(t)
    \/ \E t \in Tasks, cmd \in PollCommands : PollBegin(t, cmd)
    \/ \E t \in Tasks, r \in Responses : PollResponse(t, r)
    \/ \E t \in Tasks : FetchBegin(t)
    \/ \E t \in Tasks, r \in Responses : FetchResponse(t, r)
    \/ \E t \in Tasks, r \in Responses : FetchRetry(t, r)
    \/ \E pid \in Pids : ChildExits(pid)
    \/ \E v \in StoreValues : StoreChanges(v)

SpecPoll == InitPoll /\ [][NextPoll]_vars

(***************************************************************************)
(* The commands that send requests to the managed proxy, next to the       *)
(* lifecycle commands, with stop_proxy queueing for the mutex.             *)
(***************************************************************************)
NextManage ==
    \/ \E t \in Tasks : StartBegin(t)
    \/ \E t \in Tasks : StartFinish(t)
    \/ \E t \in Tasks : StopCall(t)
    \/ \E t \in Tasks : StopLocked(t)
    \/ \E t \in Tasks : StopKill(t)
    \/ \E t \in Tasks : StopFinish(t)
    \/ \E t \in Tasks, cmd \in ManageCommands : ManageBegin(t, cmd)
    \/ \E t \in Tasks, r \in Responses : ManageResponse(t, r)
    \/ \E t \in Tasks, cmd \in PollCommands : PollBegin(t, cmd)
    \/ \E t \in Tasks, r \in Responses : PollResponse(t, r)
    \/ \E t \in Tasks : FetchBegin(t)
    \/ \E t \in Tasks, r \in Responses : FetchResponse(t, r)
    \/ \E t \in Tasks, r \in Responses : FetchRetry(t, r)
    \/ \E pid \in Pids : ChildExits(pid)
    \/ \E v \in StoreValues : StoreChanges(v)

\* a request made by a client with a timeout ends within 5 s
TimedResponse(t) ==
    \/ \E r \in Responses : FetchResponse(t, r)
    \/ \E r \in Responses : FetchRetry(t, r)
    \/ /\ pc[t] \in {"poll_wait", "manage_wait"}
       /\ Unwrap(local[t]) \in TimedCommands
       /\ \/ \E r \in Responses : PollResponse(t, r)
          \/ \E r \in Responses : ManageResponse(t, r)

\* with no managed proxy alive the connection is refused at once
RefusedResponse(t) ==
    /\ \A p \in Pids : procs[p] # "alive"
    /\ PollResponse(t, "error") \/ ManageResponse(t, "error")

\* what the runtime guarantees: the startup sleep ends, the tokio mutex is
\* handed to its waiters in order, the kill and the 2 s wait of stop_proxy
\* end, the kill by port ends, a request with a timeout ends, and a request to
\* a port nobody listens on ends.  A request without a timeout to a proxy that
\* is alive has no such guarantee.
ManageFairness ==
    \A t \in Tasks :
        /\ WF_vars(StartFinish(t))
        /\ SF_vars(StopLocked(t))
        /\ WF_vars(StopKill(t))
        /\ WF_vars(StopFinish(t))
        /\ WF_vars(TimedResponse(t))
        /\ WF_vars(RefusedResponse(t))

SpecManage == InitPoll /\ [][NextManage]_vars /\ ManageFairness


(***************************************************************************)
(* find_compatible_asset (proxy.rs), applied to lists of release assets.   *)
(***************************************************************************)
UpperCase == <<"A", "B", "C", "D", "E", "F", "G", "H", "I", "J", "K", "L", "M",
               "N", "O", "P", "Q", "R", "S", "T", "U", "V", "W", "X", "Y", "Z">>

LowerCase == <<"a", "b", "c", "d", "e", "f", "g", "h", "i", "j", "k", "l", "m",
               "n", "o", "p", "q", "r", "s", "t", "u", "v", "w", "x", "y", "z">>

\* str::to_lowercase
to_lowercase(s) ==
    [i \in 1..Len(s) |->
        IF \E k \in 1..Len(UpperCase) : UpperCase[k] = s[i]
        THEN LowerCase[CHOOSE k \in 1..Len(UpperCase) : UpperCase[k] = s[i]]
        ELSE s[i]]

\* str::contains
Contains(s, pat) == FindSub(s, pat, 1) # 0

\* format!("{}_{}", platform, arch)
TargetPattern(platform, arch) == platform \o <<"_">> \o arch

\* skip_patterns
SkipPatterns == {<<"c", "h", "e", "c", "k", "s", "u", "m">>}

\* the loop of find_compatible_asset: the first asset, in list order, whose
\* lower-cased name holds no skip pattern and holds the target pattern
RECURSIVE find_compatible_asset(_, _)
find_compatible_asset(assets, target_pattern) ==
    IF assets = <<>> THEN None
    ELSE LET name_lower == to_lowercase(Head(assets))
             should_skip == \E p \in SkipPatterns : Contains(name_lower, p)
         IN  IF should_skip THEN find_compatible_asset(Tail(assets), target_pattern)
             ELSE IF Contains(name_lower, target_pattern) THEN Some(Head(assets))
             ELSE find_compatible_asset(Tail(assets), target_pattern)

\* longest list of release assets
MaxAssets == 3

\* cli_darwin_arm64.tar.gz
AssetArchive == <<"c", "l", "i", "_", "d", "a", "r", "w", "i", "n", "_", "a", "r", "m", "6", "4", ".", "t", "a", "r", ".", "g", "z">>

\* cli_darwin_arm64.tar.gz.sha256
AssetSha256 == <<"c", "l", "i", "_", "d", "a", "r", "w", "i", "n", "_", "a", "r", "m", "6", "4", ".", "t", "a", "r", ".", "g", "z", ".", "s", "h", "a", "2", "5", "6">>

\* cli_darwin_amd64.tar.gz
AssetOtherArch == <<"c", "l", "i", "_", "d", "a", "r", "w", "i", "n", "_", "a", "m", "d", "6", "4", ".", "t", "a", "r", ".", "g", "z">>

\* checksums_darwin_arm64.txt
AssetChecksums == <<"c", "h", "e", "c", "k", "s", "u", "m", "s", "_", "d", "a", "r", "w", "i", "n", "_", "a", "r", "m", "6", "4", ".", "t", "x", "t">>

\* CLI_Darwin_<<"a", "r", "m", "6", "4">>.zip
AssetUpperCase == <<"C", "L", "I", "_", "D", "a", "r", "w", "i", "n", "_", "A", "R", "M", "6", "4", ".", "z", "i", "p">>

AssetNames == {AssetArchive, AssetSha256, AssetOtherArch, AssetChecksums, AssetUpperCase}

\* the lists of distinct assets, in every order
AssetLists ==
    {l \in UNION {[1..n -> AssetNames] : n \in 0..MaxAssets} :
        \A i, j \in 1..Len(l) : i # j => l[i] # l[j]}

\* (platform, arch) of the build
Targets == {<<<<"d", "a", "r", "w", "i", "n">>, <<"a", "r", "m", "6", "4">>>>, <<<<"l", "i", "n", "u", "x">>, <<"a", "m", "d", "6", "4">>>>}

\* the application state before it is built
Unbuilt ==
    /\ phase = "boot"
    /\ status = NoStatus
    /\ process = None
    /\ management_key = <<>>
    /\ is_starting = FALSE
    /\ is_downloading = FALSE
    /\ download_progress = 0
    /\ last_error = None

InitAsset ==
    \E assets \in AssetLists, target \in Targets :
        /\ Surroundings(None, AbsentFile, None, "absent", DefaultPort)
        /\ Unbuilt
        /\ sources = [assets |-> assets, platform |-> target[1], arch |-> target[2],
                      result |-> None]

\* install_binary's find_compatible_asset(&release.assets).ok_or(NoCompatibleBinary)
FindAsset ==
    /\ last = NoRet
    /\ LET found == find_compatible_asset(sources.assets,
                                          TargetPattern(sources.platform, sources.arch))
       IN  /\ sources' = [sources EXCEPT !.result = found]
           /\ last' = RetVal("find_compatible_asset",
                             IF IsSome(found) THEN "Ok" ELSE "NoCompatibleBinary", "none")
    /\ UNCHANGED <<phase, supervisor, settings_port, config, binary, store, env, procs,
                   lock, pc, local>>

SpecAsset == InitAsset /\ [][FindAsset]_vars

(***************************************************************************)
(* The config file operations of ProxyStateInner, applied to a family of   *)
(* existing files.                                                         *)
(***************************************************************************)
\* a key with a dollar sign in it
KeyDollar == <<"p", "$", "w">>

\* a file as ensure_config_exists writes it with, in front, a comment line
\* "# default port: 8317"
FileWithPortComment ==
    [exists |-> TRUE,
     lines |-> <<Line(FALSE, "#", <<" ", "d", "e", "f", "a", "u", "l", "t", " ", "p", "o", "r", "t", ":", " ", "8", "3", "1", "7">>)>> \o SessionFile(9000, KeyE).lines]

\* a file as ensure_config_exists writes it with, in front, a comment line
\* "# secret-key: "changeme""
FileWithSecretComment ==
    [exists |-> TRUE,
     lines |-> <<Line(FALSE, "#", <<" ", "s", "e", "c", "r", "e", "t", "-", "k", "e", "y", ":", " ", "\"", "c", "h", "a", "n", "g", "e", "m", "e", "\"">>)>> \o SessionFile(9000, KeyE).lines]

\* a short hand-written file: no port line, the secret-key not in quotes
FileHandWritten ==
    [exists |-> TRUE,
     lines |-> <<Line(FALSE, "host", Quoted(<<"h">>)),
                 Line(FALSE, "remote-management", <<>>),
                 Line(TRUE, "secret-key", KeyE)>>]

ConfigFiles == {AbsentFile, SessionFile(9000, KeyE), FileWithPortComment,
                FileWithSecretComment, FileHandWritten}

MemoryKeys == {KeyA, KeyDollar}

\* a supervisor holding the port and the key, next to the file
InitFile ==
    \E file \in ConfigFiles, port \in Ports, key \in MemoryKeys :
        /\ Surroundings(None, file, None, "old", DefaultPort)
        /\ sources = NoSources
        /\ phase = "ready"
        /\ status = [NoStatus EXCEPT !.port = port]
        /\ process = None
        /\ management_key = key
        /\ is_starting = FALSE
        /\ is_downloading = FALSE
        /\ download_progress = 0
        /\ last_error = None

\* what the three operations leave alone
FileFrame ==
    UNCHANGED <<phase, sources, supervisor, settings_port, binary, store, env, procs,
                lock, pc, local>>

\* self.ensure_config_exists()
EnsureConfig ==
    /\ phase = "ready"
    /\ FileFrame
    /\ \/ \E uuid \in Uuids :
            /\ config' = ensure_config_exists(config, status.port, management_key, uuid)
            /\ last' = RetVal("ensure_config_exists", "Ok", "unit")
       \/ \* create_dir_all or the write of the new file fails
          /\ config' = config
          /\ last' = RetVal("ensure_config_exists", "ConfigError", "none")

\* self.update_config_port(new_port)
UpdateConfigPort(new_port) ==
    /\ phase = "ready"
    /\ FileFrame
    /\ \/ /\ config' = update_config_port(config, new_port)
          /\ last' = RetVal("update_config_port", "Ok", "unit")
       \/ \* the read or the write fails
          /\ config.exists
          /\ config' = config
          /\ last' = RetVal("update_config_port", "ConfigError", "none")

\* self.sync_secret_key_in_config()
SyncSecretKey ==
    /\ phase = "ready"
    /\ FileFrame
    /\ \/ /\ config' = sync_secret_key_in_config(config, management_key)
          /\ last' = RetVal("sync_secret_key_in_config", "Ok", "unit")
       \/ \* the read or the write fails
          /\ config.exists
          /\ config' = config
          /\ last' = RetVal("sync_secret_key_in_config", "ConfigError", "none")

NextFile ==
    \/ EnsureConfig
    \/ \E new_port \in Ports : UpdateConfigPort(new_port)
    \/ SyncSecretKey

SpecFile == InitFile /\ [][NextFile]_vars

(***************************************************************************)
(* The port commands: set_port and save_settings.                          *)
(***************************************************************************)
NextSettings ==
    \/ \E t \in Tasks, port \in Ports : SetPort(t, port)
    \/ \E t \in Tasks : SetPortSettings(t)
    \/ \E t \in Tasks, port \in Ports : SaveSettings(t, port)
    \/ \E t \in Tasks : GetProxyStatus(t)

SpecSettings == Init /\ [][NextSettings]_vars

(***************************************************************************)
(* Shell profiles (shell_profile.rs): generate_config, add_to_profile and  *)
(* remove_from_profile.  A profile file is [exists, content], its content  *)
(* a sequence of characters.                                               *)
(***************************************************************************)
NL == "\n"

\* enum ShellType
ShellTypes == {"Zsh", "Bash", "Fish", "Powershell", "Cmd"}

\* enum CLIAgent
CLIAgents == {"ClaudeCode", "GeminiCLI", "Codex", "Qwen", "Iflow", "Antigravity"}

\* CLIAgent::display_name
display_name(agent) ==
    CASE agent = "ClaudeCode" -> <<"C", "l", "a", "u", "d", "e", " ", "C", "o", "d", "e">>
      [] agent = "GeminiCLI" -> <<"G", "e", "m", "i", "n", "i", " ", "C", "L", "I">>
      [] agent = "Codex" -> <<"C", "o", "d", "e", "x">>
      [] agent = "Qwen" -> <<"Q", "w", "e", "n">>
      [] agent = "Iflow" -> <<"i", "F", "l", "o", "w">>
      [] agent = "Antigravity" -> <<"A", "n", "t", "i", "g", "r", "a", "v", "i", "t", "y">>

\* CLIAgent::env_var_name
env_var_name(agent) ==
    CASE agent = "ClaudeCode" -> <<"A", "N", "T", "H", "R", "O", "P", "I", "C", "_", "B", "A", "S", "E", "_", "U", "R", "L">>
      [] agent = "GeminiCLI" -> <<"G", "E", "M", "I", "N", "I", "_", "A", "P", "I", "_", "B", "A", "S", "E">>
      [] agent = "Codex" -> <<"O", "P", "E", "N", "A", "I", "_", "B", "A", "S", "E", "_", "U", "R", "L">>
      [] agent = "Qwen" -> <<"Q", "W", "E", "N", "_", "B", "A", "S", "E", "_", "U", "R", "L">>
      [] agent = "Iflow" -> <<"I", "F", "L", "O", "W", "_", "B", "A", "S", "E", "_", "U", "R", "L">>
      [] agent = "Antigravity" -> <<"A", "N", "T", "I", "G", "R", "A", "V", "I", "T", "Y", "_", "B", "A", "S", "E", "_", "U", "R", "L">>

\* CLIAgent::api_key_env_var
api_key_env_var(agent) ==
    CASE agent = "ClaudeCode" -> Some(<<"A", "N", "T", "H", "R", "O", "P", "I", "C", "_", "A", "P", "I", "_", "K", "E", "Y">>)
      [] agent = "GeminiCLI" -> None
      [] agent = "Codex" -> Some(<<"O", "P", "E", "N", "A", "I", "_", "A", "P", "I", "_", "K", "E", "Y">>)
      [] agent = "Qwen" -> Some(<<"Q", "W", "E", "N", "_", "A", "P", "I", "_", "K", "E", "Y">>)
      [] agent = "Iflow" -> Some(<<"I", "F", "L", "O", "W", "_", "A", "P", "I", "_", "K", "E", "Y">>)
      [] agent = "Antigravity" -> Some(<<"A", "N", "T", "I", "G", "R", "A", "V", "I", "T", "Y", "_", "A", "P", "I", "_", "K", "E", "Y">>)

\* format!("http://127.0.0.1:{}/v1", port)
BaseUrl(port) == <<"h", "t", "t", "p", ":", "/", "/", "1", "2", "7", ".", "0", ".", "0", ".", "1", ":">> \o FormatNum(port) \o <<"/", "v", "1">>

ShellAssign_Export(shell, name, value) ==
    <<"e", "x", "p", "o", "r", "t", " ">> \o name \o <<"=", DQ>> \o value \o <<DQ, NL>>

\* the format strings of generate_config, one arm of the match per shell
ShellAssign(shell, name, value) ==
    CASE shell \in {"Zsh", "Bash"} -> <<"e", "x", "p", "o", "r", "t", " ">> \o name \o <<"=", DQ>> \o value \o <<DQ, NL>>
      [] shell = "Fish" -> <<"s", "e", "t", " ", "-", "g", "x", " ">> \o name \o <<" ", DQ>> \o value \o <<DQ, NL>>
      [] shell = "Powershell" -> <<"$", "e", "n", "v", ":">> \o name \o <<" ", "=", " ", DQ>> \o value \o <<DQ, NL>>
      [] shell = "Cmd" -> <<"s", "e", "t", " ">> \o name \o <<"=">> \o value \o <<NL>>

\* CLIAgent::generate_config
generate_config(agent, shell, port, api_key) ==
    LET base_url_line == ShellAssign(shell, env_var_name(agent), BaseUrl(port))
        key_var == api_key_env_var(agent)
    IN  IF IsSome(key_var) /\ IsSome(api_key)
        THEN base_url_line \o ShellAssign(shell, Unwrap(key_var), Unwrap(api_key))
        ELSE base_url_line

\* format!("# Zest Configuration for {}", agent.display_name())
Marker(agent) == <<"#", " ", "Z", "e", "s", "t", " ", "C", "o", "n", "f", "i", "g", "u", "r", "a", "t", "i", "o", "n", " ", "f", "o", "r", " ">> \o display_name(agent)

\* format!("# End Zest Configuration for {}", agent.display_name())
EndMarker(agent) == <<"#", " ", "E", "n", "d", " ", "Z", "e", "s", "t", " ", "C", "o", "n", "f", "i", "g", "u", "r", "a", "t", "i", "o", "n", " ", "f", "o", "r", " ">> \o display_name(agent)

\* str::find: index of the first occurrence of pat in s at or after i (0: none)
StrFind(s, pat, i) ==
    LET at == {k \in i..(Len(s) - Len(pat) + 1) : SubSeq(s, k, k + Len(pat) - 1) = pat}
    IN  IF at = {} THEN 0 ELSE CHOOSE k \in at : \A j \in at : k <= j

\* the removal both functions make: the first marker and the first end marker
\* are looked up independently; end_pos is past the line of the end marker,
\* start_pos takes the newline before the marker in; replace_range panics
\* when start_pos > end_pos.  Positions are the code's byte offsets.
RemoveBlock(content, agent) ==
    LET s == StrFind(content, Marker(agent), 1)
        e == StrFind(content, EndMarker(agent), 1)
    IN  IF s = 0 \/ e = 0
        THEN [found |-> FALSE, panics |-> FALSE, content |-> content]
        ELSE LET start == s - 1
                 nl == StrFind(content, <<NL>>, e)
                 end_pos == IF nl = 0 THEN Len(content) ELSE nl
                 start_pos == IF start > 0 /\ content[start] = NL THEN start - 1 ELSE start
             IN  IF start_pos > end_pos
                 THEN [found |-> TRUE, panics |-> TRUE, content |-> content]
                 ELSE [found |-> TRUE, panics |-> FALSE,
                       content |-> SubSeq(content, 1, start_pos)
                                     \o SubSeq(content, end_pos + 1, Len(content))]

\* format!("\n{}\n{}{}\n", marker, config, end_marker)
Block(agent, shell, port, api_key) ==
    <<NL>> \o Marker(agent) \o <<NL>> \o generate_config(agent, shell, port, api_key)
        \o EndMarker(agent) \o <<NL>>

AbsentProfile == [exists |-> FALSE, content |-> <<>>]

\* add_to_profile without a failure of the file system: the result and the file
add_to_profile(file, shell, agent, port, api_key) ==
    LET removed == RemoveBlock(IF file.exists THEN file.content ELSE <<>>, agent)
    IN  IF removed.panics THEN [res |-> "panic", file |-> file]
        ELSE [res |-> "Ok",
              file |-> [exists |-> TRUE,
                        content |-> removed.content \o Block(agent, shell, port, api_key)]]

\* remove_from_profile without a failure of the file system
remove_from_profile(file, agent) ==
    IF ~file.exists THEN [res |-> "Ok", file |-> file]
    ELSE LET removed == RemoveBlock(file.content, agent)
         IN  IF removed.panics THEN [res |-> "panic", file |-> file]
             ELSE IF removed.found
             THEN [res |-> "Ok", file |-> [exists |-> TRUE, content |-> removed.content]]
             ELSE [res |-> "Ok", file |-> file]

\* most calls made in a row on one profile
MaxCalls == 3

\* a line of the user's own
UserLine == <<"x", "=", "1", NL>>

\* the agents configured in the profile, and the one whose block is already there
ProfileAgents == {"ClaudeCode", "GeminiCLI"}

OtherAgent == "Codex"

\* the profiles the calls are made on: none, an empty one, the user's lines
\* with and without a final newline, a block of another agent, an older block
\* of the agent followed by a user line, and files in which a hand edit has
\* left one of the agent's two marker lines behind
ProfileFiles(shell, agent) ==
    {AbsentProfile,
     [exists |-> TRUE, content |-> <<>>],
     [exists |-> TRUE, content |-> UserLine],
     [exists |-> TRUE, content |-> <<"x", "=", "1">>],
     [exists |-> TRUE, content |-> UserLine \o Block(OtherAgent, shell, 9000, None)],
     [exists |-> TRUE, content |-> UserLine \o Block(agent, shell, 9000, None) \o UserLine],
     [exists |-> TRUE, content |-> Marker(agent) \o <<NL>> \o UserLine],
     [exists |-> TRUE, content |-> EndMarker(agent) \o <<NL>> \o UserLine \o UserLine]}

\* sources holds the arguments, the profile file, and the calls made so far,
\* each with the file it found
InitProfile ==
    \E shell \in ShellTypes, agent \in ProfileAgents, api_key \in {None, Some(KeyA)} :
      \E file \in ProfileFiles(shell, agent) :
        /\ Surroundings(None, AbsentFile, None, "absent", DefaultPort)
        /\ Unbuilt
        /\ sources = [shell |-> shell, agent |-> agent, port |-> DefaultPort,
                      api_key |-> api_key, profile |-> file, trail |-> <<>>]

ProfileFrame ==
    UNCHANGED <<phase, supervisor, settings_port, config, binary, store, env, procs,
                lock, pc, local>>

\* a call is recorded with its result and the file it found
Called(op, res, file) ==
    /\ sources' = [sources EXCEPT
                     !.profile = file,
                     !.trail = Append(@, [op |-> op, res |-> res, before |-> sources.profile])]
    /\ last' = RetVal(op, res, IF res = "Ok" THEN "unit" ELSE "none")

\* configure_agent: add_to_profile(shell, agent, port, api_key)
AddToProfile ==
    /\ Len(sources.trail) < MaxCalls
    /\ ProfileFrame
    /\ \/ LET done == add_to_profile(sources.profile, sources.shell, sources.agent,
                                     sources.port, sources.api_key)
          IN  Called("add_to_profile", done.res, done.file)
       \/ \* read_to_string fails
          /\ sources.profile.exists
          /\ Called("add_to_profile", "ReadError", sources.profile)
       \/ \* create_dir_all or write fails
          Called("add_to_profile", "WriteError", sources.profile)

\* unconfigure_agent: remove_from_profile(shell, agent)
RemoveFromProfile ==
    /\ Len(sources.trail) < MaxCalls
    /\ ProfileFrame
    /\ \/ LET done == remove_from_profile(sources.profile, sources.agent)
          IN  Called("remove_from_profile", done.res, done.file)
       \/ \* read_to_string fails
          /\ sources.profile.exists
          /\ Called("remove_from_profile", "ReadError", sources.profile)
       \/ \* write fails
          /\ sources.profile.exists
          /\ RemoveBlock(sources.profile.content, sources.agent).found
          /\ Called("remove_from_profile", "WriteError", sources.profile)

NextProfile == AddToProfile \/ RemoveFromProfile

SpecProfile == InitProfile /\ [][NextProfile]_vars

\* generate_config over every agent, shell, port and key
InitGenerate ==
    \E shell \in ShellTypes, agent \in CLIAgents, port \in Ports,
       api_key \in {None, Some(KeyA)} :
        /\ Surroundings(None, AbsentFile, None, "absent", DefaultPort)
        /\ Unbuilt
        /\ sources = [shell |-> shell, agent |-> agent, port |-> port,
                      api_key |-> api_key, generated |-> None]

\* agent.generate_config(shell, port, api_key)
GenerateConfig ==
    /\ sources.generated = None
    /\ ProfileFrame
    /\ sources' = [sources EXCEPT
                     !.generated = Some(generate_config(sources.agent, sources.shell,
                                                        sources.port, sources.api_key))]
    /\ last' = RetVal("generate_config", "Ok", "config")

SpecGenerate == InitGenerate /\ [][GenerateConfig]_vars


(***************************************************************************)
(* Construction alone, over every combination of the key sources.          *)
(***************************************************************************)
\* how a key is written in the file: in double quotes, in single quotes, bare
Styled(key, style) ==
    IF style = "dq" THEN Quoted(key)
    ELSE IF style = "sq" THEN <<SQ>> \o key \o <<SQ>>
    ELSE key

Styles == {"dq", "sq", "bare"}

\* values a source may hold: usable keys, a bcrypt hash, the empty string
SourceKeys == {KeyA, HashKey, <<>>}

\* the lines of a remote-management section holding secret-key
SecretLines(secret, style) ==
    IF secret = None THEN <<>>
    ELSE <<Line(FALSE, "remote-management", <<>>),
           Line(TRUE, "allow-remote", <<"f", "a", "l", "s", "e">>),
           Line(TRUE, "secret-key", Styled(Unwrap(secret), style)),
           Line(FALSE, "", <<>>)>>

RECURSIVE ItemLines(_, _)
ItemLines(items, style) ==
    IF items = <<>> THEN <<>>
    ELSE <<Line(TRUE, "-", Styled(Head(items), style))>> \o ItemLines(Tail(items), style)

\* the lines of an api-keys list (None: the file has no such list)
ApiKeyLines(items, style) ==
    IF items = None THEN <<>>
    ELSE <<Line(FALSE, "api-keys", <<>>)>> \o ItemLines(Unwrap(items), style)
             \o <<Line(FALSE, "", <<>>)>>

ItemLists == {None, Some(<<>>), Some(<<HashKey>>), Some(<<KeyC>>), Some(<<HashKey, KeyC>>),
              Some(<<KeyC, KeyE>>)}

SourceFile(secret, items, style) ==
    [exists |-> TRUE,
     lines |-> <<Line(FALSE, "port", FormatNum(9000))>> \o ApiKeyLines(items, style)
                 \o SecretLines(secret, style)
                 \o <<Line(FALSE, "debug", <<"f", "a", "l", "s", "e">>)>>]

InitResolve ==
    \E st \in {None} \cup {Some(k) : k \in SourceKeys},
       secret \in {None} \cup {Some(k) : k \in SourceKeys},
       items \in ItemLists,
       e \in {None} \cup {Some(k) : k \in SourceKeys \cup {KeyE}},
       style \in Styles, exists \in BOOLEAN :
        /\ exists \/ (secret = None /\ items = None /\ style = "dq")
        /\ Surroundings(st, IF exists THEN SourceFile(secret, items, style) ELSE AbsentFile,
                        e, "old", DefaultPort)
        /\ sources = [store |-> st, secret |-> secret,
                      items |-> IF items = None THEN <<>> ELSE Unwrap(items), env |-> e]
        /\ phase = "boot"
        /\ status = NoStatus
        /\ process = None
        /\ management_key = <<>>
        /\ is_starting = FALSE
        /\ is_downloading = FALSE
        /\ download_progress = 0
        /\ last_error = None

\* ProxyState::new (main.rs setup)
Construct ==
    /\ phase = "boot"
    /\ phase' = "ready"
    /\ UNCHANGED <<settings_port, config, binary, store, env, procs, lock, pc, local,
                   last, sources>>
    /\ \E uuid \in Uuids :
         LET new == ProxyStateInner_new(store, config, env, uuid)
         IN  /\ status' = new.status
             /\ process' = new.process
             /\ management_key' = new.management_key
             /\ is_starting' = new.is_starting
             /\ is_downloading' = new.is_downloading
             /\ download_progress' = new.download_progress
             /\ last_error' = new.last_error

SpecResolve == InitResolve /\ [][Construct]_vars

(***************************************************************************)
(* The lifecycle of the managed proxy (Spec, SpecInstall).                 *)
(***************************************************************************)
\* the value of the secret-key line inside remote-management, without quotes
RECURSIVE SecretKeyInLines(_, _, _)
SecretKeyInLines(lines, i, inside) ==
    IF i > Len(lines) THEN None
    ELSE LET l == lines[i]
         IN  IF l.key = "remote-management" /\ ~l.indent
             THEN SecretKeyInLines(lines, i + 1, TRUE)
             ELSE IF inside /\ l.indent /\ l.key = "secret-key"
             THEN Some(TrimMatches(Trim(l.val), DQ))
             ELSE SecretKeyInLines(lines, i + 1, inside /\ (l.indent \/ l.key \in {"", "#"}))

\* the file's port and secret-key are the ones held in memory
ConfigInSync(file, st, key) ==
    /\ read_port_from_config(file) = Some(st.port)
    /\ SecretKeyInLines(file.lines, 1, FALSE) = Some(key)

\* C1: after start, stop, set_port or an auth-files fetch that refreshed the
\* key has completed, a config file that exists holds the in-memory port and,
\* as its remote-management secret-key, the in-memory management key.
C1_ConfigMatchesMemory ==
    [][((last'.op \in {"start", "stop", "set_port"} /\ last'.res = "Ok")
          \/ \E t \in Tasks, r \in Responses : FetchRetry(t, r))
       /\ config'.exists
       => ConfigInSync(config', status', management_key')]_vars

\* C2: the status has a pid exactly when it says running.
C2_PidIffRunning ==
    phase = "ready" => (IsSome(status.pid) <=> status.running)

C2_Witness ==
    /\ last.op = "get_proxy_status"
    /\ last.status.running
    /\ IsSome(last.status.pid)

\* C3: a start that fails after it has set is_starting leaves the supervisor
\* stopped: not running, no pid, no child handle, is_starting false.
C3_FailedStartIsStopped ==
    last.op = "start" /\ last.res \in {"ConfigError", "StartupFailed", "ProcessError"}
        => /\ ~status.running
           /\ status.pid = None
           /\ process = None
           /\ ~is_starting

\* C4: start with the binary missing returns BinaryNotFound and spawns nothing
\* and changes nothing: not the supervisor state, not the config file, not the
\* processes, whatever state the supervisor is in.
C4_MissingBinary ==
    [][\A t \in Tasks :
         StartBegin(t) /\ binary = "absent"
           => /\ last'.op = "start"
              /\ last'.res = "BinaryNotFound"
              /\ UNCHANGED <<supervisor, config, procs, lock>>]_vars

C4_Witness ==
    /\ last.op = "start"
    /\ last.res = "BinaryNotFound"
    /\ status.running
    /\ binary = "absent"

\* C5: start called while the proxy is running returns the current status,
\* spawns no second child and changes nothing.
C5_StartWhileRunning ==
    [][\A t \in Tasks :
         StartBegin(t) /\ status.running
           => /\ last' = Ret("start", "Ok", status)
              /\ UNCHANGED <<supervisor, config, procs, lock>>]_vars

\* C5, with the binary in place: start called while the proxy is running and
\* the binary is installed returns the current status, spawns no second child
\* and changes nothing.
C5_StartWhileRunningInstalled ==
    [][\A t \in Tasks :
         StartBegin(t) /\ status.running /\ binary # "absent"
           => /\ last' = Ret("start", "Ok", status)
              /\ UNCHANGED <<supervisor, config, procs, lock>>]_vars

\* only a start that found the proxy running returns Ok with the child exited
C5_Witness ==
    /\ last.op = "start"
    /\ last.res = "Ok"
    /\ last.status = status
    /\ \E pid \in Pids : process = Some(pid) /\ procs[pid] = "exited"

\* C6: when start returns Ok the status it returns is the held one, says
\* running with a pid, the child handle is held and is_starting is false.
C6_StartOk ==
    last.op = "start" /\ last.res = "Ok"
        => /\ last.status = status
           /\ status.running
           /\ IsSome(status.pid)
           /\ IsSome(process)
           /\ ~is_starting

C6_Witness ==
    /\ last.op = "start"
    /\ last.res = "Ok"
    /\ \E pid \in Pids : process = Some(pid) /\ status.pid = Some(pid) /\ procs[pid] = "alive"

\* C7: stop always returns Ok, and when it has returned the status says not
\* running, pid and uptime are None and no child handle is held, whether or
\* not a handle was held before and whether or not the kills succeeded.
C7_StoppedAfterStop ==
    last.op = "stop"
        => /\ last.res = "Ok"
           /\ last.status = status
           /\ ~status.running
           /\ status.pid = None
           /\ status.uptime_seconds = None
           /\ process = None

\* stop has returned and the child it was to kill is still alive
C7_Witness ==
    /\ last.op = "stop"
    /\ \E pid \in Pids : procs[pid] = "alive"

\* C8: a start or stop in progress holds the mutex from its first step to its
\* return; while it is in progress no other handler changes the supervisor
\* state or returns a value read from it.
C8_StartStopHoldMutex ==
    [][\A t \in Tasks :
         /\ pc'[t] \in {"start_sleep", "stop_kill", "stop_portkill"} => lock' = t
         /\ pc[t] \in {"start_sleep", "stop_kill", "stop_portkill"} /\ pc'[t] = pc[t]
              => /\ UNCHANGED supervisor
                 /\ last'.op \in {"none", "set_port"}]_vars

\* a start is asleep with its child spawned while another handler is at work
C8_Witness ==
    \E t \in Tasks :
        /\ pc[t] = "start_sleep"
        /\ lock = t
        /\ is_starting
        /\ ~status.running
        /\ \E u \in Tasks : u # t /\ pc[u] # "idle"

\* a source's value counts when it is there, non-empty and not a hash
Usable(o) == IsSome(o) /\ Unwrap(o) # <<>> /\ ~StartsWith(Unwrap(o), BcryptPrefix)

\* the cached key after the step is the store's usable key, or else unchanged
KeyFollowsStore ==
    IF Usable(store) THEN management_key' = Trim(Unwrap(store))
    ELSE management_key' = management_key

\* C11: after every start that returns Ok the cached key is the store's key
\* when the store holds a usable one, and is unchanged when it does not.
C11_KeyAfterStart ==
    [][last'.op = "start" /\ last'.res = "Ok" => KeyFollowsStore]_vars

\* C11, for the starts that bring the proxy up: after every start that spawns
\* the proxy and returns Ok the cached key is the store's key when the store
\* holds a usable one, and is unchanged when it does not.
C11_KeyAfterFreshStart ==
    [][\A t \in Tasks : StartFinish(t) /\ last'.res = "Ok" => KeyFollowsStore]_vars

\* a start has returned Ok with the store's key cached in place of the one
\* written to the file before the spawn
C11_Witness ==
    /\ last.op = "start"
    /\ last.res = "Ok"
    /\ store = Some(management_key)
    /\ config.exists
    /\ SecretKeyInLines(config.lines, 1, FALSE) # Some(management_key)

\* C12: a first auth-files response of 401 or 403 is followed by one retry
\* request, and a call issues no request after its retry: the retry's
\* response ends the call.
C12_RetryOnAuthFailure ==
    [][\A t \in Tasks :
         /\ \A r \in {"401", "403"} : FetchResponse(t, r) => pc'[t] = "fetch_retry"
         /\ pc[t] = "fetch_retry" /\ pc'[t] # pc[t]
              => pc'[t] = "idle" /\ last'.op = "fetch_auth_files"]_vars

\* C12, with the condition the retry has: after a first response of 401 or
\* 403 the key is read from the store; when the store holds a usable key that
\* is not the cached one, that key is cached and one retry request is issued
\* with it, otherwise the call ends with an empty list and no retry; a call
\* issues no request after its retry.
C12_RetryWithNewKey ==
    [][\A t \in Tasks :
         /\ \A r \in {"401", "403"} :
              FetchResponse(t, r)
                => IF Usable(store) /\ Trim(Unwrap(store)) # management_key
                   THEN pc'[t] = "fetch_retry" /\ management_key' = Trim(Unwrap(store))
                   ELSE /\ pc'[t] = "idle"
                        /\ last' = RetVal("fetch_auth_files", "Ok", "empty")
                        /\ UNCHANGED management_key
         /\ pc[t] = "fetch_retry" /\ pc'[t] # pc[t]
              => pc'[t] = "idle" /\ last'.op = "fetch_auth_files"]_vars

\* the retry is in flight with the store's key
C12_Witness ==
    \E t \in Tasks :
        /\ pc[t] = "fetch_retry"
        /\ lock = t
        /\ store = Some(management_key)

\* C13: fetch_auth_files never returns an error, and it returns the empty
\* list whenever the response that ends the call (the first one or the
\* retry's, a second 401 included) is a transport failure, a non-success
\* status or an unparsable body.
C13_AuthFilesNeverErr ==
    [][/\ last'.op = "fetch_auth_files" => last'.res = "Ok"
       /\ \A t \in Tasks : \A r \in Responses \ {"200"} :
            (FetchResponse(t, r) \/ FetchRetry(t, r)) /\ pc'[t] = "idle"
              => last' = RetVal("fetch_auth_files", "Ok", "empty")]_vars

\* a call that made a request has returned the empty list with the key
\* refreshed from the store
C13_Witness ==
    /\ last = RetVal("fetch_auth_files", "Ok", "empty")
    /\ status.running
    /\ store = Some(management_key)
    /\ config.exists
    /\ SecretKeyInLines(config.lines, 1, FALSE) # Some(management_key)

\* C14: fetch_logs, fetch_usage, fetch_all_quotas and fetch_auth_files never
\* return an error, and return their empty value for a transport failure, a
\* non-success status and an unparsable body.
C14_PollingNeverErrs ==
    [][/\ last'.op \in PollCommands \cup {"fetch_auth_files"} => last'.res = "Ok"
       /\ \A t \in Tasks : \A r \in Responses \ {"200"} :
            (PollResponse(t, r) \/ FetchResponse(t, r) \/ FetchRetry(t, r)) /\ pc'[t] = "idle"
              => last'.res = "Ok" /\ last'.val = "empty"]_vars

\* an install_binary call by handler t has started and not yet returned
InstallInProgress(t) ==
    pc[t] \in {"install_fetch", "install_download", "install_extract", "install_copy",
               "install_finish"}

\* C15: while an install_binary call is in progress the download progress
\* readers can see never decreases, whatever other handlers do, another
\* install_binary call included.
C15_ProgressNeverDecreases ==
    [][(\E t \in Tasks : InstallInProgress(t)) => download_progress' >= download_progress]_vars

\* C26: over an existing installation, a start that runs while an
\* install_binary call is between removing the file and copying the new one
\* finds a complete binary at the path and does not fail with BinaryNotFound.
C26_StartSeesCompleteBinary ==
    [][\A t \in Tasks :
         StartBegin(t) /\ (\E u \in Tasks : pc[u] = "install_copy")
           => binary \in {"old", "new"} /\ last'.res # "BinaryNotFound"]_vars

\* C27: is_downloading is true exactly while some install_binary call is in
\* progress.
C27_DownloadingIffInstalling ==
    is_downloading <=> \E t \in Tasks : InstallInProgress(t)

\* C28: over an existing installation, whenever install_binary returns an
\* error a complete binary is at the installation path.
C28_ErrorKeepsBinary ==
    [][last'.op = "install_binary" /\ last'.res # "Ok"
         => binary' \in {"old", "new"}]_vars

(***************************************************************************)
(* Requests to the managed proxy and the queue for the mutex (SpecManage). *)
(***************************************************************************)
\* C21: every stop call eventually returns, with the status Stopped, whatever
\* the tracked child does and whatever commands hold the mutex while they
\* wait for a response of the managed proxy.
C21_StopReturns ==
    \A t \in Tasks :
        pc[t] = "stop_lock"
            ~> (pc[t] = "idle" /\ last.op = "stop" /\ last.res = "Ok" /\ ~last.status.running)

\* the positions at which a handler has a request to the managed proxy in flight
RequestLabels == {"fetch_wait", "fetch_retry", "poll_wait", "manage_wait"}

EndsWith(s, p) == Len(s) >= Len(p) /\ SubSeq(s, Len(s) - Len(p) + 1, Len(s)) = p

\* a checksum file: a checksum listing, or the .sha256 companion of a file
IsChecksumFile(name) ==
    \/ Contains(to_lowercase(name), <<"c", "h", "e", "c", "k", "s", "u", "m">>)
    \/ EndsWith(to_lowercase(name), <<".", "s", "h", "a", "2", "5", "6">>)

\* the asset is for the target and is no checksum file
Selectable(name, platform, arch) ==
    /\ Contains(to_lowercase(name), TargetPattern(platform, arch))
    /\ ~IsChecksumFile(name)

\* C16: for every list of release assets in any order, the asset returned by
\* find_compatible_asset is one of the list whose name holds the target's
\* platform_arch token and is not a checksum file; none is returned only when
\* no such asset is in the list, and then the result is NoCompatibleBinary.
C16_AssetForTarget ==
    last.op = "find_compatible_asset"
        => LET listed == {sources.assets[i] : i \in 1..Len(sources.assets)}
               fit == {a \in listed : Selectable(a, sources.platform, sources.arch)}
           IN  /\ IsSome(sources.result) => Unwrap(sources.result) \in fit
               /\ sources.result = None <=> fit = {}
               /\ sources.result = None <=> last.res = "NoCompatibleBinary"

(***************************************************************************)
(* The config file operations (SpecFile).                                  *)
(***************************************************************************)
\* the lines of the two files differ, if at all, in top-level port lines only
OnlyPortLinesDiffer(before, after) ==
    /\ Len(after) = Len(before)
    /\ \A j \in 1..Len(before) :
         after[j] # before[j]
           => /\ before[j].key = "port" /\ ~before[j].indent
              /\ after[j].key = "port" /\ ~after[j].indent

\* C17: for every port p and every existing config file, after
\* update_config_port(p) has succeeded the port read from the file is p and
\* no line but the port line has changed.
C17_UpdatePortOnly ==
    [][\A p \in Ports :
         UpdateConfigPort(p) /\ last'.res = "Ok" /\ config.exists
           => /\ config'.exists
              /\ read_port_from_config(config') = Some(p)
              /\ OnlyPortLinesDiffer(config.lines, config'.lines)]_vars

\* index of the first secret-key line inside remote-management whose value
\* is in double quotes (0: none)
RECURSIVE QuotedSecretLine(_, _, _)
QuotedSecretLine(lines, i, inside) ==
    IF i > Len(lines) THEN 0
    ELSE LET l == lines[i]
             v == Trim(l.val)
         IN  IF l.key = "remote-management" /\ ~l.indent
             THEN QuotedSecretLine(lines, i + 1, TRUE)
             ELSE IF /\ inside /\ l.indent /\ l.key = "secret-key"
                     /\ Len(v) >= 2 /\ v[1] = DQ /\ FindQuote(v, 2) # 0
             THEN i
             ELSE QuotedSecretLine(lines, i + 1, inside /\ (l.indent \/ l.key \in {"", "#"}))

\* the lines with that value, up to its closing quote, replaced by the key
WithSecretKey(lines, key) ==
    LET j == QuotedSecretLine(lines, 1, FALSE)
        v == Trim(lines[j].val)
    IN  IF j = 0 THEN lines
        ELSE [lines EXCEPT ![j].val = Quoted(key) \o SubSeq(v, FindQuote(v, 2) + 1, Len(v))]

\* C18: sync_secret_key_in_config, when it succeeds on an existing file,
\* replaces the first quoted secret-key value inside remote-management by
\* the in-memory management key and changes nothing else in the file.
C18_SyncSecretOnly ==
    [][SyncSecretKey /\ last'.res = "Ok" /\ config.exists
         => /\ config'.exists
            /\ config'.lines = WithSecretKey(config.lines, management_key)]_vars

\* C19: ensure_config_exists leaves an existing file as it is, whatever the
\* in-memory port and key, and writes a file only when none exists: then,
\* when it succeeds, the default document for the in-memory port and key.
C19_EnsureNeverOverwrites ==
    [][EnsureConfig
         => IF config.exists THEN config' = config
            ELSE \/ config' = config
                 \/ /\ last'.res = "Ok"
                    /\ \E uuid \in Uuids :
                         config' = [exists |-> TRUE,
                                    lines |-> DefaultConfigLines(status.port, management_key,
                                                                 uuid)]]_vars

\* ensure_config_exists has returned Ok on a file that holds another port and
\* another key than the ones in memory
C19_Witness ==
    /\ last = RetVal("ensure_config_exists", "Ok", "unit")
    /\ config.exists
    /\ read_port_from_config(config) # Some(status.port)
    /\ SecretKeyInLines(config.lines, 1, FALSE) # Some(management_key)

\* C24: a status read that says running finds the tracked child alive: after
\* the child has exited on its own, get_proxy_status reports not running.
C24_RunningMeansAlive ==
    last.op = "get_proxy_status" /\ last.status.running
        => IsSome(process) /\ procs[Unwrap(process)] = "alive"

\* C25: while the proxy is running status.port stays what it was when the
\* child was started (the port the child listens on does not change during its
\* life), whether or not set_port is called.
C25_PortOfRunningChild ==
    [][status.running /\ status'.running => status'.port = status.port]_vars

(***************************************************************************)
(* The port in the settings and in the supervisor (SpecSettings).          *)
(***************************************************************************)
\* C20: when a set_port or save_settings command has returned, with or
\* without an error, and no command is in progress, the port held in the
\* settings state equals status.port.
C20_PortsInTandem ==
    /\ last.op \in {"set_port", "save_settings"}
    /\ \A t \in Tasks : pc[t] = "idle"
    => settings_port = status.port

(***************************************************************************)
(* Shell profiles (SpecProfile, SpecGenerate).                             *)
(***************************************************************************)
\* a marker of the agent with, somewhere after it, an end marker of the agent
HoldsBlock(content, agent) ==
    LET s == StrFind(content, Marker(agent), 1)
    IN  s # 0 /\ StrFind(content, EndMarker(agent), s) # 0

\* number of occurrences of pat in s
CountSub(s, pat) ==
    Cardinality({k \in 1..(Len(s) - Len(pat) + 1) : SubSeq(s, k, k + Len(pat) - 1) = pat})

\* C22: when remove_from_profile, add_to_profile and add_to_profile again
\* have been called in a row with the same arguments and have returned Ok,
\* the last call has left the file as it found it, and the file holds exactly
\* one marked block of the agent.
C22_AddIdempotent ==
    LET trail == sources.trail
        n == Len(trail)
    IN  /\ n >= 3
        /\ trail[n - 2].op = "remove_from_profile"
        /\ trail[n - 1].op = "add_to_profile"
        /\ trail[n].op = "add_to_profile"
        /\ \A i \in (n - 2)..n : trail[i].res = "Ok"
        => /\ sources.profile = trail[n].before
           /\ HoldsBlock(sources.profile.content, sources.agent)
           /\ CountSub(sources.profile.content, Marker(sources.agent)) = 1
           /\ CountSub(sources.profile.content, EndMarker(sources.agent)) = 1

\* the shell's way of setting a variable
Keyword(shell) ==
    CASE shell \in {"Zsh", "Bash"} -> <<"e", "x", "p", "o", "r", "t", " ">>
      [] shell = "Fish" -> <<"s", "e", "t", " ", "-", "g", "x", " ">>
      [] shell = "Powershell" -> <<"$", "e", "n", "v", ":">>
      [] shell = "Cmd" -> <<"s", "e", "t", " ">>

\* line is an assignment of value to name in the shell's syntax
Assigns(line, shell, name, value) ==
    /\ StartsWith(line, Keyword(shell) \o name)
    /\ EndsWith(line, value \o (IF shell = "Cmd" THEN <<>> ELSE <<DQ>>))
    /\ Len(line) <= Len(Keyword(shell)) + Len(name) + Len(value) + 5

\* C23: for every agent, shell and port the text generate_config returns has,
\* as its first line, the assignment of http://127.0.0.1:{port}/v1 to the
\* agent's base-URL variable in the shell's syntax; it has a second line, the
\* assignment of the key to the agent's API-key variable, exactly when the
\* agent has such a variable and a key is supplied; and it has no other line.
C23_ConfigLines ==
    IsSome(sources.generated)
        => LET text == Unwrap(sources.generated)
               ends == {i \in 1..Len(text) : text[i] = NL}
               first == StrFind(text, <<NL>>, 1)
               key_var == api_key_env_var(sources.agent)
               key_line == IsSome(key_var) /\ IsSome(sources.api_key)
           IN  /\ first # 0
               /\ text[Len(text)] = NL
               /\ Assigns(SubSeq(text, 1, first - 1), sources.shell,
                          env_var_name(sources.agent),
                          <<"h", "t", "t", "p", ":", "/", "/", "1", "2", "7", ".", "0", ".", "0", ".", "1", ":">> \o FormatNum(sources.port) \o <<"/", "v", "1">>)
               /\ Cardinality(ends) = IF key_line THEN 2 ELSE 1
               /\ key_line
                    => Assigns(SubSeq(text, first + 1, Len(text) - 1), sources.shell,
                               Unwrap(key_var), Unwrap(sources.api_key))

C23_Witness ==
    /\ IsSome(sources.generated)
    /\ sources.shell = "Fish"
    /\ sources.agent = "GeminiCLI"
    /\ sources.port = 9000
    /\ IsSome(sources.api_key)
    /\ last.op = "generate_config"

\* C30: when add_to_profile has returned Ok on an existing profile that held
\* no block of the agent, and remove_from_profile has been called next and
\* has not failed on the file system, the profile is what it was before the
\* two calls, byte for byte.
C30_AddRemoveRestores ==
    LET trail == sources.trail
        n == Len(trail)
    IN  /\ n >= 2
        /\ trail[n - 1].op = "add_to_profile"
        /\ trail[n - 1].res = "Ok"
        /\ trail[n].op = "remove_from_profile"
        /\ trail[n].res \in {"Ok", "panic"}
        /\ trail[n - 1].before.exists
        /\ ~HoldsBlock(trail[n - 1].before.content, sources.agent)
        => sources.profile = trail[n - 1].before


(***************************************************************************)
(* Key resolution at construction (SpecResolve).                           *)
(***************************************************************************)
RECURSIVE FirstUsableItem(_)
FirstUsableItem(items) ==
    IF items = <<>> THEN None
    ELSE IF Usable(Some(Head(items))) THEN Some(Head(items))
    ELSE FirstUsableItem(Tail(items))

\* the keys the priority order allows, given what the sources were made to hold
KeysByPriority(src) ==
    IF Usable(src.store) THEN {Unwrap(src.store)}
    ELSE IF Usable(src.secret) THEN {Unwrap(src.secret)}
    ELSE IF IsSome(FirstUsableItem(src.items)) THEN {Unwrap(FirstUsableItem(src.items))}
    ELSE IF Usable(src.env) THEN {Unwrap(src.env)}
    ELSE Uuids

\* C9: the management key resolved at construction never begins with "$2",
\* whatever the preferences store, the config file's secret-key and api-keys
\* entries and the environment variable hold.
C9_KeyNeverBcrypt ==
    phase = "ready" => ~StartsWith(management_key, BcryptPrefix)

\* C10: construction yields the value of the highest-priority source holding
\* a usable (non-empty, non-hash) key: preferences store, config secret-key,
\* first non-hash api-keys entry, environment variable, generated token.
C10_KeyByPriority ==
    phase = "ready" => management_key \in KeysByPriority(sources)

\* what the code does hold to: as C9 and C10 with the environment variable
\* taken as it is
KeysByPriorityEnvUnfiltered(src) ==
    IF Usable(src.store) \/ Usable(src.secret) \/ IsSome(FirstUsableItem(src.items))
    THEN KeysByPriority(src)
    ELSE IF IsSome(src.env) THEN {Unwrap(src.env)} ELSE Uuids

KeyByPriorityEnvUnfiltered ==
    phase = "ready" => management_key \in KeysByPriorityEnvUnfiltered(sources)

KeyBcryptOnlyFromEnv ==
    phase = "ready" /\ StartsWith(management_key, BcryptPrefix)
        => sources.env = Some(management_key)

====
